---- MODULE Spec2Model ----
(***************************************************************************)
(* Model of the Conan recipe conanfile.py of libhal-armcortex: the recipe  *)
(* object (settings, options, declared requirements, cpp_info, package     *)
(* identity info) and its three methods requirements(), package_info()     *)
(* and package_id().                                                       *)
(*                                                                         *)
(* Python strings that the recipe builds or searches (architecture,        *)
(* compiler version, package folder, references, linker flags) are         *)
(* sequences of one-character strings, so that concatenation, the "in"     *)
(* substring test and os.path.join are computed rather than assumed.       *)
(* Settings that are only compared for equality (os, compiler) are plain   *)
(* strings.                                                                *)
(***************************************************************************)
EXTENDS Integers, Sequences, FiniteSets, TLC

VARIABLES recipe

vars == <<recipe>>

(***************************************************************************)
(* Bounds                                                                  *)
(***************************************************************************)
\* how many calls of package_info() / package_id() on one recipe object are counted
MaxCalls == 2

(***************************************************************************)
(* String literals                                                         *)
(***************************************************************************)
S_cortex_dash == <<"c","o","r","t","e","x","-">>
S_None == <<"N","o","n","e">>
S_linker_scripts == <<"l","i","n","k","e","r","_","s","c","r","i","p","t","s">>
S_dash_L == <<"-","L">>
S_libhal_armcortex == <<"l","i","b","h","a","l","-","a","r","m","c","o","r","t","e","x">>
S_libhal_exceptions == <<"l","i","b","h","a","l","-","e","x","c","e","p","t","i","o","n","s">>
S_exceptions_ref == S_libhal_exceptions \o <<"/","[","^","1",".","0",".","0","]">>
S_prebuilt_picolibc == <<"p","r","e","b","u","i","l","t","-","p","i","c","o","l","i","b","c">>
S_picolibc_prefix == S_prebuilt_picolibc \o <<"/">>
S_libhal_ref == <<"l","i","b","h","a","l","/","[","^","4",".","0",".","0","]">>
S_libhal_util_ref == <<"l","i","b","h","a","l","-","u","t","i","l","/","[","^","5",".","0",".","0","]">>

(***************************************************************************)
(* Python helpers                                                          *)
(***************************************************************************)
\* a settings item: either unset (None) or a string value
NoneItem == [is_none |-> TRUE, value |-> <<>>]
Item(s) == [is_none |-> FALSE, value |-> s]

\* str(x) of a settings item: the value itself, or "None" when unset
str_trunc(item) == IF item.is_none THEN S_None
                   ELSE SubSeq(item.value, 1, IF Len(item.value) < 2 THEN Len(item.value) ELSE 2)
str(item) == IF item.is_none THEN S_None ELSE item.value

\* sub in s (Python substring test)
StartsWith(sub, s) == Len(sub) <= Len(s) /\ SubSeq(s, 1, Len(sub)) = sub
Contains(sub, s) ==
    \E i \in 1..(Len(s) + 1) :
        /\ i + Len(sub) - 1 <= Len(s)
        /\ SubSeq(s, i, i + Len(sub) - 1) = sub

\* os.path.join(a, b) on a POSIX host
path_join(a, b) ==
    IF Len(b) > 0 /\ b[1] = "/" THEN b
    ELSE IF Len(a) = 0 \/ a[Len(a)] = "/" THEN a \o b
    ELSE a \o <<"/">> \o b

(***************************************************************************)
(* Inputs: the platform descriptor, the user's option choices, the package *)
(* folder and the requirements the external bootstrap helper declares      *)
(***************************************************************************)
OperatingSystems == {"baremetal", "Linux"}
Compilers == {"gcc", "clang"}
\* compiler.version: unset, well-formed ("12.2", "13.2") or malformed (empty)
CompilerVersions ==
    {NoneItem, Item(<<"1","2",".","2">>), Item(<<"1","3",".","2">>), Item(<<>>)}
\* arch: "cortex-m4", "armv8", "cortex" (no dash), "xcortex-a" (not a prefix), unset
Architectures ==
    {Item(S_cortex_dash \o <<"m","4">>), Item(<<"a","r","m","v","8">>),
     Item(<<"c","o","r","t","e","x">>), Item(<<"x">> \o S_cortex_dash \o <<"a">>),
     NoneItem}
\* package_folder is an absolute path of the Conan cache, without trailing slash
PackageFolders == {<<"/","p">>, <<"/","c","/","p","k","g">>}

Requirement(ref, th) == [ref |-> ref, transitive_headers |-> th]
\* what bootstrap.module.add_library_requirements declares (external helper)
BootstrapRequirements ==
    {<<>>, <<Requirement(S_libhal_ref, "True"), Requirement(S_libhal_util_ref, "True")>>}

OptionKeys == {"use_libhal_exceptions", "use_picolibc"}
\* the option values the user chose: any subset of the keys, each True or False
UserOptions == UNION {[K -> BOOLEAN] : K \in SUBSET OptionKeys}

default_options_exc_off ==
    [k \in OptionKeys |-> IF k = "use_libhal_exceptions" THEN FALSE ELSE TRUE]
default_options == [k \in OptionKeys |-> TRUE]

\* the option set of the recipe: the defaults overridden by the user's choices
ResolveOptions(user) ==
    [k \in OptionKeys |-> IF k \in DOMAIN user THEN user[k] ELSE default_options[k]]

EmptyMap == [k \in {} |-> TRUE]
NoError == "none"

\* the recipe object as Conan hands it to the methods
NewRecipe(os, compiler, version, arch, folder, user, base) ==
    LET settings == [os |-> os, compiler |-> compiler,
                     compiler_version |-> version, arch |-> arch]
        options == ResolveOptions(user)
    IN [settings |-> settings,
        user_options |-> user,
        options |-> options,
        package_folder |-> folder,
        bootstrap |-> base,
        requires |-> <<>>,
        cpp_info |-> [libs |-> <<>>, properties |-> EmptyMap, exelinkflags |-> <<>>],
        info |-> [settings |-> settings, options |-> options],
        requirements_calls |-> 0,
        info_calls |-> 0,
        id_calls |-> 0,
        error |-> NoError]

(***************************************************************************)
(* requirements()                                                          *)
(***************************************************************************)
\* self.requires(ref, transitive_headers=...)
requires(self, ref, th) ==
    [self EXCEPT !.requires = Append(@, Requirement(ref, th))]

add_library_requirements(self) ==
    [self EXCEPT !.requires = @ \o self.bootstrap]

\* self.settings.os == "baremetal" and self.settings.compiler == "gcc"
IsBaremetalGcc_or(settings) ==
    settings.os = "baremetal" \/ settings.compiler = "gcc"
IsBaremetalGcc(settings) ==
    settings.os = "baremetal" /\ settings.compiler = "gcc"

\* variant: the exception dependency is declared whatever the option says
requirements_always_exceptions(self) ==
    LET s1 == add_library_requirements(self)
        s2 == IF IsBaremetalGcc(s1.settings)
              THEN requires(s1, S_exceptions_ref, "True")
              ELSE s1
        s3 == IF IsBaremetalGcc(s2.settings) /\ s2.options["use_picolibc"]
              THEN requires(s2, S_picolibc_prefix \o str(s2.settings.compiler_version), "None")
              ELSE s2
    IN [s3 EXCEPT !.requirements_calls = @ + 1]

\* variant: an unset or empty compiler version is rejected
requirements_validating(self) ==
    LET s1 == add_library_requirements(self)
        s2 == IF IsBaremetalGcc(s1.settings) /\ s1.options["use_libhal_exceptions"]
              THEN requires(s1, S_exceptions_ref, "True")
              ELSE s1
        v == s2.settings.compiler_version
        s3 == IF IsBaremetalGcc(s2.settings) /\ s2.options["use_picolibc"]
              THEN IF v.is_none \/ Len(v.value) = 0
                   THEN [s2 EXCEPT !.error = "ConanInvalidConfiguration"]
                   ELSE requires(s2, S_picolibc_prefix \o str(v), "None")
              ELSE s2
    IN [s3 EXCEPT !.requirements_calls = @ + 1]

\* variant: the conditional dependencies are tied to the architecture test
requirements_cortex_only(self) ==
    LET s1 == add_library_requirements(self)
        cortex == Contains(S_cortex_dash, str(s1.settings.arch))
        s2 == IF IsBaremetalGcc(s1.settings) /\ cortex /\ s1.options["use_libhal_exceptions"]
              THEN requires(s1, S_exceptions_ref, "True")
              ELSE s1
        s3 == IF IsBaremetalGcc(s2.settings) /\ cortex /\ s2.options["use_picolibc"]
              THEN requires(s2, S_picolibc_prefix \o str(s2.settings.compiler_version), "None")
              ELSE s2
    IN [s3 EXCEPT !.requirements_calls = @ + 1]

requirements(self) ==
    LET s1 == add_library_requirements(self)
        s2 == IF IsBaremetalGcc(s1.settings) /\ s1.options["use_libhal_exceptions"]
              THEN requires(s1, S_exceptions_ref, "True")
              ELSE s1
        s3 == IF IsBaremetalGcc(s2.settings) /\ s2.options["use_picolibc"]
              THEN LET compiler_version == str(s2.settings.compiler_version)
                   IN requires(s2, S_picolibc_prefix \o compiler_version, "None")
              ELSE s2
    IN [s3 EXCEPT !.requirements_calls = @ + 1]

(***************************************************************************)
(* package_info()                                                          *)
(***************************************************************************)
\* variant: exelinkflags is not reset before the conditional append
package_info_accumulate(self) ==
    LET c1 == [self.cpp_info EXCEPT
                 !.libs = <<S_libhal_armcortex>>,
                 !.properties = ("cmake_target_name" :> "libhal::armcortex") @@ @]
        c2 == IF /\ IsBaremetalGcc(self.settings)
                 /\ Contains(S_cortex_dash, str(self.settings.arch))
              THEN [c1 EXCEPT !.exelinkflags =
                      Append(@, S_dash_L \o path_join(self.package_folder, S_linker_scripts))]
              ELSE c1
    IN [self EXCEPT !.cpp_info = c2, !.info_calls = @ + 1]

package_info(self) ==
    LET c1 == [self.cpp_info EXCEPT
                 !.libs = <<S_libhal_armcortex>>,
                 !.properties = ("cmake_target_name" :> "libhal::armcortex") @@ @,
                 !.exelinkflags = <<>>]
        c2 == IF /\ IsBaremetalGcc(self.settings)
                 /\ Contains(S_cortex_dash, str(self.settings.arch))
              THEN LET linker_path == path_join(self.package_folder, S_linker_scripts)
                   IN [c1 EXCEPT !.exelinkflags = Append(@, S_dash_L \o linker_path)]
              ELSE c1
    IN [self EXCEPT !.cpp_info = c2, !.info_calls = @ + 1]

(***************************************************************************)
(* package_id()                                                            *)
(***************************************************************************)
\* del options.<field>: Conan raises ConanException when the option does not
\* exist (which is why Options.rm_safe exists); otherwise the key is removed
delattr(options, field) ==
    IF field \in DOMAIN options
    THEN [ok |-> TRUE, options |-> [k \in DOMAIN options \ {field} |-> options[k]]]
    ELSE [ok |-> FALSE, options |-> options]

\* variant: only use_picolibc is removed
package_id_keep_exceptions(self) ==
    LET d1 == delattr(self.info.options, "use_picolibc")
        counted == [self EXCEPT !.id_calls = @ + 1]
    IN IF ~d1.ok
       THEN [counted EXCEPT !.error = "ConanException"]
       ELSE [counted EXCEPT !.info.options = d1.options]

\* variant: only use_libhal_exceptions is removed
package_id_keep_picolibc(self) ==
    LET d2 == delattr(self.info.options, "use_libhal_exceptions")
        counted == [self EXCEPT !.id_calls = @ + 1]
    IN IF ~d2.ok
       THEN [counted EXCEPT !.error = "ConanException"]
       ELSE [counted EXCEPT !.info.options = d2.options]

package_id(self) ==
    LET d1 == delattr(self.info.options, "use_picolibc")
        d2 == delattr(d1.options, "use_libhal_exceptions")
        counted == [self EXCEPT !.id_calls = @ + 1]
    IN IF ~d1.ok
       THEN [counted EXCEPT !.error = "ConanException"]
       ELSE IF ~d2.ok
       THEN [counted EXCEPT !.info.options = d1.options, !.error = "ConanException"]
       ELSE [counted EXCEPT !.info.options = d2.options]

(***************************************************************************)
(* One evaluation of the recipe: Conan calls the methods on the recipe     *)
(* object; an exception aborts the evaluation.                             *)
(***************************************************************************)
Alive(self) == self.error = NoError

Init ==
    \E os \in OperatingSystems, compiler \in Compilers, version \in CompilerVersions,
       arch \in Architectures, folder \in PackageFolders, user \in UserOptions,
       base \in BootstrapRequirements :
        recipe = (1 :> NewRecipe(os, compiler, version, arch, folder, user, base))

\* Two evaluations of the same recipe on platforms that differ at most in the
\* architecture, each with its own explicitly chosen option values.  Each
\* evaluation has its own recipe object and they share no state, so Conan's
\* calls are taken on both objects in the same step.
PairInit ==
    \E os \in OperatingSystems, compiler \in Compilers, version \in CompilerVersions,
       folder \in PackageFolders, base \in BootstrapRequirements,
       arch1 \in Architectures, arch2 \in Architectures,
       user1 \in [OptionKeys -> BOOLEAN], user2 \in [OptionKeys -> BOOLEAN] :
        recipe = (1 :> NewRecipe(os, compiler, version, arch1, folder, user1, base))
              @@ (2 :> NewRecipe(os, compiler, version, arch2, folder, user2, base))

\* Conan calls requirements() once per recipe object
Requirements ==
    /\ \A r \in DOMAIN recipe :
        Alive(recipe[r]) /\ recipe[r].requirements_calls = 0
    /\ recipe' = [r \in DOMAIN recipe |-> requirements(recipe[r])]

PackageInfo ==
    /\ \A r \in DOMAIN recipe :
        Alive(recipe[r]) /\ recipe[r].info_calls < MaxCalls
    /\ recipe' = [r \in DOMAIN recipe |-> package_info(recipe[r])]

PackageId ==
    /\ \A r \in DOMAIN recipe :
        Alive(recipe[r]) /\ recipe[r].id_calls < MaxCalls
    /\ recipe' = [r \in DOMAIN recipe |-> package_id(recipe[r])]

Next == Requirements \/ PackageInfo \/ PackageId

Spec == Init /\ [][Next]_vars

PairSpec == PairInit /\ [][Next]_vars

(***************************************************************************)
(* Vocabulary of the properties                                            *)
(***************************************************************************)
Recipes == {recipe[r] : r \in DOMAIN recipe}

\* index of the first "/" of a reference (Len + 1 when there is none)
SlashAt(ref) ==
    LET S == {i \in 1..Len(ref) : ref[i] = "/"}
    IN IF S = {} THEN Len(ref) + 1 ELSE CHOOSE i \in S : \A j \in S : i <= j
RefName(ref) == SubSeq(ref, 1, SlashAt(ref) - 1)
RefVersion(ref) == SubSeq(ref, SlashAt(ref) + 1, Len(ref))

ExceptionDeps(self) ==
    {i \in DOMAIN self.requires : RefName(self.requires[i].ref) = S_libhal_exceptions}
PicolibcDeps(self) ==
    {i \in DOMAIN self.requires : RefName(self.requires[i].ref) = S_prebuilt_picolibc}

OnBaremetalGcc(self) ==
    self.settings.os = "baremetal" /\ self.settings.compiler = "gcc"
\* the architectures of the input set whose string contains "cortex-"
CortexArchs ==
    {Item(<<"c","o","r","t","e","x","-","m","4">>),
     Item(<<"x","c","o","r","t","e","x","-","a">>)}
\* "-L" followed by <package_folder>/linker_scripts
LinkerFlag(self) == <<"-","L">> \o self.package_folder \o <<"/">> \o S_linker_scripts
\* string form of a settings value
StringForm(item) == IF item.is_none THEN <<"N","o","n","e">> ELSE item.value
Version_12_2 == Item(<<"1","2",".","2">>)
BothOptions(self) == self.options["use_libhal_exceptions"] /\ self.options["use_picolibc"]

(***************************************************************************)
(* Properties                                                              *)
(***************************************************************************)
\* C1: on a platform that is not baremetal or not gcc, whatever the options
\* and the architecture, the dependency list never holds a libhal-exceptions
\* or prebuilt-picolibc dependency and exelinkflags is empty.
C1_NoExtrasOffPlatform ==
    \A self \in Recipes :
        (self.settings.os # "baremetal" \/ self.settings.compiler # "gcc") =>
            /\ ExceptionDeps(self) = {}
            /\ PicolibcDeps(self) = {}
            /\ self.cpp_info.exelinkflags = <<>>

C1_Witness ==
    \E self \in Recipes :
        /\ self.settings.os = "baremetal" /\ self.settings.compiler = "clang"
        /\ self.settings.arch \in CortexArchs
        /\ BothOptions(self)
        /\ self.requirements_calls = 1 /\ self.info_calls >= 1

\* C2: on baremetal+gcc, after requirements() the list holds the dependency
\* libhal-exceptions/[^1.0.0] with transitive_headers=True exactly once when
\* use_libhal_exceptions is true and no libhal-exceptions dependency when it
\* is false.
C2_ExceptionsOnceIffOption ==
    \A self \in Recipes :
        (OnBaremetalGcc(self) /\ self.requirements_calls = 1) =>
            /\ Cardinality(ExceptionDeps(self)) =
                   (IF self.options["use_libhal_exceptions"] THEN 1 ELSE 0)
            /\ \A i \in ExceptionDeps(self) :
                   self.requires[i] = Requirement(S_exceptions_ref, "True")

C2_Witness ==
    \E self \in Recipes :
        /\ OnBaremetalGcc(self) /\ self.requirements_calls = 1
        /\ self.options["use_libhal_exceptions"] /\ ~self.options["use_picolibc"]
        /\ Cardinality(ExceptionDeps(self)) = 1

\* C3: on baremetal+gcc, after requirements() there is exactly one
\* prebuilt-picolibc dependency when use_picolibc is true, and its version is
\* the string form of compiler.version unchanged; none when it is false.
C3_PicolibcVersionVerbatim ==
    \A self \in Recipes :
        (OnBaremetalGcc(self) /\ self.requirements_calls = 1) =>
            IF self.options["use_picolibc"]
            THEN /\ Cardinality(PicolibcDeps(self)) = 1
                 /\ \A i \in PicolibcDeps(self) :
                        RefVersion(self.requires[i].ref) =
                            StringForm(self.settings.compiler_version)
            ELSE PicolibcDeps(self) = {}

C3_Witness ==
    \E self \in Recipes :
        /\ OnBaremetalGcc(self) /\ self.requirements_calls = 1
        /\ self.options["use_picolibc"]
        /\ self.settings.compiler_version = Item(<<"1","3",".","2">>)
        /\ \E i \in PicolibcDeps(self) :
               RefVersion(self.requires[i].ref) = <<"1","3",".","2">>

\* C4: on baremetal+gcc, after package_info() exelinkflags is exactly the one
\* flag -L<package_folder>/linker_scripts when the architecture contains
\* "cortex-" and is empty for every other architecture, whatever the options.
C4_OneFlagIffCortex ==
    \A self \in Recipes :
        (OnBaremetalGcc(self) /\ self.info_calls >= 1) =>
            self.cpp_info.exelinkflags =
                (IF self.settings.arch \in CortexArchs
                 THEN <<LinkerFlag(self)>> ELSE <<>>)

C4_Witness ==
    \E self \in Recipes :
        /\ OnBaremetalGcc(self) /\ self.info_calls >= 1
        /\ self.settings.arch = Item(<<"x","c","o","r","t","e","x","-","a">>)
        /\ ~self.options["use_libhal_exceptions"]
        /\ Len(self.cpp_info.exelinkflags) = 1

\* C5 as stated: package_id() removes exactly the two keys and nothing else,
\* and applying it again gives the same reduced option set without error.
C5_IdempotentWithoutError ==
    \A self \in Recipes :
        self.id_calls >= 1 =>
            /\ DOMAIN self.info.options = OptionKeys \ {"use_picolibc", "use_libhal_exceptions"}
            /\ self.info.settings = self.settings
            /\ self.error = NoError

\* C5 amended: package_id() removes exactly the two keys and nothing else;
\* applied again to its own result it raises (the option no longer exists)
\* and leaves the reduced option set as it was.
C5_RemovesBothThenRaises ==
    \A self \in Recipes :
        /\ self.id_calls = 0 => self.info.options = self.options
        /\ self.id_calls >= 1 =>
            /\ DOMAIN self.info.options = OptionKeys \ {"use_picolibc", "use_libhal_exceptions"}
            /\ self.info.settings = self.settings
        /\ self.id_calls = 1 => self.error = NoError
        /\ self.id_calls >= 2 => self.error = "ConanException"

C5_Witness ==
    \E self \in Recipes :
        /\ self.id_calls = 2
        /\ self.options["use_picolibc"] /\ ~self.options["use_libhal_exceptions"]
        /\ DOMAIN self.info.options = {}
        /\ self.error = "ConanException"

\* C6: a call of requirements() never raises: whatever the platform and the
\* options, it ends without error with a dependency list that extends the
\* bootstrap requirements.
C6_RequirementsNeverRaises ==
    [][\A r \in DOMAIN recipe :
          recipe'[r].requirements_calls > recipe[r].requirements_calls =>
              /\ recipe'[r].error = NoError
              /\ Len(recipe'[r].requires) >= Len(recipe[r].bootstrap)
              /\ SubSeq(recipe'[r].requires, 1, Len(recipe[r].bootstrap)) = recipe[r].bootstrap]_vars

C6_Witness ==
    \E self \in Recipes :
        /\ OnBaremetalGcc(self) /\ self.options["use_picolibc"]
        /\ self.settings.compiler_version = NoneItem
        /\ self.requirements_calls = 1
        /\ self.error = NoError
        /\ PicolibcDeps(self) # {}

\* C7: two evaluations on equal platforms, whatever their values of the two
\* options, have the same package identity after package_id().
C7_IdentityIgnoresOptions ==
    \A a \in Recipes, b \in Recipes :
        (a.settings = b.settings /\ a.id_calls >= 1 /\ b.id_calls >= 1) =>
            a.info = b.info

C7_Witness ==
    \E a \in Recipes, b \in Recipes :
        /\ a.settings = b.settings
        /\ a.options["use_picolibc"] # b.options["use_picolibc"]
        /\ a.options["use_libhal_exceptions"] # b.options["use_libhal_exceptions"]
        /\ a.id_calls = 1 /\ b.id_calls = 1
        /\ a.requirements_calls = 1 /\ b.requirements_calls = 1
        /\ a.requires # b.requires
        /\ a.info = b.info

\* C8: with no option chosen by the user both options are true, so on
\* baremetal+gcc requirements() declares, after the bootstrap requirements,
\* libhal-exceptions and prebuilt-picolibc/<compiler version>; with version
\* 12.2 and arch cortex-m4 that is prebuilt-picolibc/12.2 and the one flag
\* -L<package_folder>/linker_scripts.
C8_DefaultsDeclareBoth ==
    \A self \in Recipes :
        DOMAIN self.user_options = {} =>
            /\ \A k \in OptionKeys : self.options[k] = TRUE
            /\ (OnBaremetalGcc(self) /\ self.requirements_calls = 1) =>
                   self.requires = self.bootstrap \o
                       << Requirement(S_exceptions_ref, "True"),
                          Requirement(S_picolibc_prefix \o
                                      StringForm(self.settings.compiler_version), "None") >>
            /\ (/\ OnBaremetalGcc(self) /\ self.requirements_calls = 1
                /\ self.settings.compiler_version = Version_12_2) =>
                   self.requires[Len(self.requires)].ref =
                       S_picolibc_prefix \o <<"1","2",".","2">>
            /\ (/\ OnBaremetalGcc(self) /\ self.info_calls >= 1
                /\ self.settings.arch = Item(<<"c","o","r","t","e","x","-","m","4">>)) =>
                   self.cpp_info.exelinkflags = <<LinkerFlag(self)>>

C8_Witness ==
    \E self \in Recipes :
        /\ DOMAIN self.user_options = {}
        /\ OnBaremetalGcc(self)
        /\ self.settings.compiler_version = Version_12_2
        /\ self.settings.arch = Item(<<"c","o","r","t","e","x","-","m","4">>)
        /\ self.requirements_calls = 1 /\ self.info_calls >= 1
        /\ Len(self.requires) = Len(self.bootstrap) + 2

\* C9: exelinkflags is empty before package_info(); after any number of calls
\* of package_info() on the same recipe object it holds at most one flag and
\* libs is exactly ["libhal-armcortex"], on every platform and for all options.
C9_FlagsDoNotAccumulate ==
    \A self \in Recipes :
        /\ self.info_calls = 0 => self.cpp_info.exelinkflags = <<>>
        /\ self.info_calls >= 1 =>
            /\ self.cpp_info.libs = <<S_libhal_armcortex>>
            /\ Len(self.cpp_info.exelinkflags) <= 1

C9_Witness ==
    \E self \in Recipes :
        /\ self.info_calls >= 2
        /\ Len(self.cpp_info.exelinkflags) = 1

\* C10: the dependencies requirements() declares do not depend on the
\* architecture: two evaluations that differ only in the architecture have the
\* same dependency list, the bootstrap requirements first, then
\* libhal-exceptions before prebuilt-picolibc; a baremetal+gcc platform whose
\* architecture has no "cortex-" gets both dependencies and no linker flag.
C10_RequiresIgnoreArch ==
    /\ \A a \in Recipes, b \in Recipes :
        (/\ [a.settings EXCEPT !.arch = NoneItem] = [b.settings EXCEPT !.arch = NoneItem]
         /\ a.options = b.options
         /\ a.requirements_calls = 1 /\ b.requirements_calls = 1) =>
            a.requires = b.requires
    /\ \A self \in Recipes :
        self.requirements_calls = 1 =>
            /\ \A i \in ExceptionDeps(self) \cup PicolibcDeps(self) : i > Len(self.bootstrap)
            /\ \A i \in ExceptionDeps(self), j \in PicolibcDeps(self) : i < j
            /\ (/\ OnBaremetalGcc(self) /\ BothOptions(self)
                /\ self.settings.arch \notin CortexArchs) =>
                   /\ ExceptionDeps(self) # {} /\ PicolibcDeps(self) # {}
                   /\ self.info_calls >= 1 => self.cpp_info.exelinkflags = <<>>

C10_Witness ==
    \E a \in Recipes, b \in Recipes :
        /\ OnBaremetalGcc(a) /\ BothOptions(a)
        /\ a.settings.arch = Item(<<"c","o","r","t","e","x","-","m","4">>)
        /\ b.settings.arch = Item(<<"a","r","m","v","8">>)
        /\ a.options = b.options
        /\ a.requirements_calls = 1 /\ b.requirements_calls = 1
        /\ a.info_calls >= 1 /\ b.info_calls >= 1
        /\ Len(b.requires) = Len(b.bootstrap) + 2
        /\ a.requires = b.requires
        /\ a.cpp_info.exelinkflags # b.cpp_info.exelinkflags

====
